---------------------------- MODULE Spec2Model ----------------------------
(***************************************************************************)
(* Community feed backend (src/main.py, src/schemas.py).                   *)
(*                                                                         *)
(* The state is the document store (collections post, comment, product,    *)
(* event), the wall clock read by create_document, the ObjectId generator, *)
(* and one record per in-flight HTTP request (its position between store   *)
(* calls, its local variables and its response).  A step of the model is   *)
(* one store call of one request together with the local computation that  *)
(* follows it up to the next store call: the store's single-document       *)
(* operations are its unit of atomicity, and requests served by different  *)
(* workers interleave between store calls.                                 *)
(*                                                                         *)
(* Strings that the code converts (lower, strip, str(ObjectId), ObjectId   *)
(* parsing, isoformat) are sequences of one-character strings so that the  *)
(* conversions are computed, character by character.                       *)
(***************************************************************************)
EXTENDS Integers, Sequences, FiniteSets, TLC

(***************************************************************************)
(* Bounds of the model.                                                    *)
(***************************************************************************)
\* number of request slots of the specification Spec
NumReq == 2
\* number of request slots of the specification SpecFeed
NumFeedReq == 1
\* the clock (in half seconds) advances up to MaxClock while requests run
MaxClock == 1
\* the creation times of an initial store of SpecFeed are in 0 .. MaxInitClock
MaxInitClock == 2
\* number of hex characters of an ObjectId string (24 in bson)
OidHexLen == 2
\* first ObjectId the generator hands out
FirstOid == 10
\* largest number of posts in an initial store of SpecFeed
MaxInitPosts == 3
\* largest number of comments in an initial store of SpecFeed
MaxInitComments == 7

(***************************************************************************)
(* Characters and strings.                                                 *)
(***************************************************************************)
UpperAlpha == <<"A","B","C","D","E","F","G","H","I","J","K","L","M",
                "N","O","P","Q","R","S","T","U","V","W","X","Y","Z">>
LowerAlpha == <<"a","b","c","d","e","f","g","h","i","j","k","l","m",
                "n","o","p","q","r","s","t","u","v","w","x","y","z">>

\* Python's None
None == <<"<None>">>

\* str.lower() on one character
LowerChar(c) ==
    IF \E i \in 1..26 : UpperAlpha[i] = c
    THEN LowerAlpha[CHOOSE i \in 1..26 : UpperAlpha[i] = c]
    ELSE c

UpperChar(c) ==
    IF \E i \in 1..26 : LowerAlpha[i] = c
    THEN UpperAlpha[CHOOSE i \in 1..26 : LowerAlpha[i] = c]
    ELSE c

\* str.lower()
Lower(s) == [i \in 1..Len(s) |-> LowerChar(s[i])]

Upper(s) == [i \in 1..Len(s) |-> UpperChar(s[i])]

\* str(x) for x a string or None
Str(x) == IF x = None THEN <<"N","o","n","e">> ELSE x

RECURSIVE LStrip(_)
LStrip(s) == IF s # <<>> /\ Head(s) = " " THEN LStrip(Tail(s)) ELSE s

RECURSIVE RStrip(_)
RStrip(s) ==
    IF s # <<>> /\ s[Len(s)] = " " THEN RStrip(SubSeq(s, 1, Len(s) - 1)) ELSE s

\* str.strip()
Strip(s) == RStrip(LStrip(s))

\* data.name.strip() or "guest"
UserIdOf(name) == IF Strip(name) = <<>> THEN <<"g","u","e","s","t">> ELSE Strip(name)

(***************************************************************************)
(* ObjectId <-> string.                                                    *)
(***************************************************************************)
HexChars == <<"0","1","2","3","4","5","6","7","8","9","a","b","c","d","e","f">>

RECURSIVE ToHex(_, _)
ToHex(n, len) ==
    IF len = 0 THEN <<>> ELSE Append(ToHex(n \div 16, len - 1), HexChars[(n % 16) + 1])

\* str(ObjectId): lower-case hex of fixed width
OidStr(oid) == ToHex(oid, OidHexLen)

IsHexChar(c) == \E i \in 1..16 : HexChars[i] = LowerChar(c)

HexVal(c) == (CHOOSE i \in 1..16 : HexChars[i] = LowerChar(c)) - 1

\* ObjectId.is_valid(s) for a string s
ObjectIdIsValid(s) == Len(s) = OidHexLen /\ \A i \in 1..Len(s) : IsHexChar(s[i])

RECURSIVE ParseHex(_)
ParseHex(s) ==
    IF s = <<>> THEN 0 ELSE 16 * ParseHex(SubSeq(s, 1, Len(s) - 1)) + HexVal(s[Len(s)])

\* ObjectId(s)
ObjectIdOf(s) == ParseHex(s)

(***************************************************************************)
(* Time stamps.  A datetime is [s, us]; the clock counts half seconds.     *)
(***************************************************************************)
DateTime(n) == [s |-> n \div 2, us |-> (n % 2) * 500000]

RECURSIVE Digits(_, _)
Digits(n, len) ==
    IF len = 0 THEN <<>> ELSE Append(Digits(n \div 10, len - 1), 48 + (n % 10))

\* datetime.isoformat() as a sequence of character codes: the zero-padded
\* seconds, and ".ffffff" only when the microsecond is not 0
IsoFormat(dt) ==
    Digits(dt.s, 2) \o (IF dt.us = 0 THEN <<>> ELSE <<46>> \o Digits(dt.us, 6))

\* Python's < on strings (sequences of character codes)
RECURSIVE StrLess(_, _)
StrLess(a, b) ==
    IF b = <<>> THEN FALSE
    ELSE IF a = <<>> THEN TRUE
    ELSE IF Head(a) # Head(b) THEN Head(a) < Head(b)
    ELSE StrLess(Tail(a), Tail(b))


(***************************************************************************)
(* Python dicts are functions from field names to values.                  *)
(***************************************************************************)
\* d[k] = v
With(d, k, v) == (k :> v) @@ d

\* d.pop(k, None) for every k in ks
Without(d, ks) == [f \in DOMAIN d \ ks |-> d[f]]

\* the empty dict
EmptyDict == <<>>

(***************************************************************************)
(* Literals of the source.                                                 *)
(***************************************************************************)
\* "Maya"
Maya == <<"M","a","y","a">>
\* "You"
You == <<"Y","o","u">>
\* "Seedling"
Seedling == <<"S","e","e","d","l","i","n","g">>
\* "Growing"
Growing == <<"G","r","o","w","i","n","g">>
\* "you", "growing": the literals the feed compares against
PinnedUser == <<"y","o","u">>
PinnedStage == <<"g","r","o","w","i","n","g">>
\* the demo captions and image urls, abbreviated
DemoCaption1 == <<"D","a","y"," ","7">>
DemoCaption2 == <<"S","t","a","g","e",":"," ","G","r","o","w","i","n","g">>
DemoImage1 == <<"i","m","g","1">>
DemoImage2 == <<"i","m","g","2">>

\* demo_posts of seed_demo and of reset_demo_posts
demo_posts ==
    << [user_id |-> Maya, caption |-> DemoCaption1, image_url |-> DemoImage1,
        stage |-> Seedling, hashtags |-> <<"#SpringStart", "#FirstSprout">>,
        cheers |-> 12],
       [user_id |-> You, caption |-> DemoCaption2, image_url |-> DemoImage2,
        stage |-> Growing, hashtags |-> <<"#MindfulMoment", "#CuttyProgress">>,
        cheers |-> 18] >>

\* the two demo products and the two demo events of seed_demo (titles only)
demo_products == << [title |-> "The Cutty Box"], [title |-> "Refill Kit"] >>
demo_events == << [title |-> "Spring Start"], [title |-> "Summer Bloom"] >>

\* the patterns of purge_unwanted_posts, lower-cased ("$options": "i")
PatRepotted == <<"r","e","p","o","t","t","e","d">>
PatRepottedToday == PatRepotted \o <<" ","t","o","d","a","y">>
PatSoilSmell == <<"s","o","i","l"," ","s","m","e","l","l">>

(***************************************************************************)
(* The document store (pymongo) and the adapter create_document.           *)
(***************************************************************************)
VARIABLES
    db,        \* TRUE iff the store handle is not None
    post,      \* collection "post", in insertion order
    comment,   \* collection "comment", in insertion order
    product,   \* collection "product": its number of documents
    event,     \* collection "event": its number of documents
    nextOid,   \* the next ObjectId the driver generates
    now,       \* the wall clock
    pc,        \* per request: its position between store calls
    loc,       \* per request: its parameters and local variables
    resp       \* per request: the HTTP response, once sent

vars == <<db, post, comment, product, event, nextOid, now, pc, loc, resp>>

store == <<post, comment, product, event>>

\* collection.insert_one(doc)
InsertOne(coll, doc) == Append(coll, doc)

\* collection.count_documents({})
CountDocuments(coll) == Len(coll)

\* the collections product and event are only ever counted (seed_demo), so
\* each is held as its number of documents: create_document adds one
CountAfterCreate(n) == n + 1

\* the document create_document stores: the payload, the creation time stamp
\* and the _id the driver assigns
NewDocument(data, oid, clock) ==
    With(With(data, "created_at", DateTime(clock)), "_id", oid)

\* create_document(collection, data): the collection after the insert
CreateDocument(coll, data, oid, clock) == InsertOne(coll, NewDocument(data, oid, clock))

RECURSIVE SortByIdDesc(_)
\* sort=[("_id", -1)]
SortByIdDesc(docs) ==
    IF docs = <<>> THEN <<>>
    ELSE LET m == CHOOSE i \in 1..Len(docs) :
                      \A j \in 1..Len(docs) : docs[j]._id <= docs[i]._id
         IN  <<docs[m]>> \o
             SortByIdDesc(SubSeq(docs, 1, m - 1) \o SubSeq(docs, m + 1, Len(docs)))

\* limit=n
Limit(docs, n) == SubSeq(docs, 1, IF Len(docs) < n THEN Len(docs) ELSE n)

\* db["post"].find({}, sort=[("_id", -1)])
FindPosts(coll) == SortByIdDesc(coll)

\* the limit of the comment query of community_posts
CommentLimit == 5

\* the comment query without its filter
FindCommentsUnfiltered(coll, pid) == Limit(SortByIdDesc(coll), CommentLimit)

\* db["comment"].find({"post_id": pid}, sort=[("_id", -1)], limit=5)
FindComments(coll, pid) ==
    Limit(SortByIdDesc(SelectSeq(coll, LAMBDA c : c.post_id = pid)), CommentLimit)

\* the filter of cheer_post:
\* {"_id": ObjectId(post_id) if ObjectId.is_valid(post_id) else post_id}
CheerFilter(post_id) ==
    IF ObjectIdIsValid(post_id)
    THEN [isOid |-> TRUE, oid |-> ObjectIdOf(post_id)]
    ELSE [isOid |-> FALSE, str |-> post_id]

\* whether a stored document (whose _id is an ObjectId) matches the filter
Matches(doc, filter) == filter.isOid /\ doc._id = filter.oid

\* {"$set": {"cheers": 1}} in place of "$inc"
IncCheersSet(doc) == With(doc, "cheers", 1)

\* {"$inc": {"cheers": -1}}
IncCheersDown(doc) ==
    With(doc, "cheers", (IF "cheers" \in DOMAIN doc THEN doc.cheers ELSE 0) - 1)

\* the update document {"$inc": {"cheers": 1}} applied to one document
IncCheers(doc) ==
    With(doc, "cheers", (IF "cheers" \in DOMAIN doc THEN doc.cheers ELSE 0) + 1)

\* find_one_and_update with upsert=True
FindOneAndUpdateUpsert(coll, filter) ==
    IF \E i \in 1..Len(coll) : Matches(coll[i], filter)
    THEN LET i == CHOOSE k \in 1..Len(coll) : Matches(coll[k], filter)
         IN  [coll EXCEPT ![i] = IncCheers(coll[i])]
    ELSE Append(coll, [_id |-> IF filter.isOid THEN filter.oid ELSE 0, cheers |-> 1])

\* find_one_and_update(filter, {"$inc": ...}, return_document=True):
\* the collection afterwards (no upsert: unchanged when nothing matches)
FindOneAndUpdate(coll, filter) ==
    IF \E i \in 1..Len(coll) : Matches(coll[i], filter)
    THEN LET i == CHOOSE k \in 1..Len(coll) : Matches(coll[k], filter)
         IN  [coll EXCEPT ![i] = IncCheers(coll[i])]
    ELSE coll

\* return_document=False: the document before the update
ReturnedBefore(coll, filter) ==
    IF \E i \in 1..Len(coll) : Matches(coll[i], filter)
    THEN coll[CHOOSE k \in 1..Len(coll) : Matches(coll[k], filter)]
    ELSE None

\* find_one_and_update's return value: the document after the update, or None
Returned(coll, filter) ==
    IF \E i \in 1..Len(coll) : Matches(coll[i], filter)
    THEN IncCheers(coll[CHOOSE k \in 1..Len(coll) : Matches(coll[k], filter)])
    ELSE None

RECURSIVE StartsWith(_, _)
StartsWith(s, pat) ==
    \/ pat = <<>>
    \/ s # <<>> /\ Head(s) = Head(pat) /\ StartsWith(Tail(s), Tail(pat))

\* an unanchored regular expression that is a literal: substring search
Contains(s, pat) == \E i \in 1..(Len(s) + 1) : StartsWith(SubSeq(s, i, Len(s)), pat)

\* the "$or" filter of purge_unwanted_posts
Unwanted(doc) ==
    LET c == Lower(Str(IF "caption" \in DOMAIN doc THEN doc.caption ELSE <<>>))
    IN  \/ StartsWith(c, PatRepotted)
        \/ Contains(c, PatRepottedToday)
        \/ Contains(c, PatSoilSmell)

\* the two filters given to delete_many: {} and the "$or" of the purge
Selects(filter, doc) == IF filter = "{}" THEN TRUE ELSE Unwanted(doc)

\* collection.delete_many(filter): what is left
DeleteMany(coll, filter) == SelectSeq(coll, LAMBDA d : ~Selects(filter, d))

\* to_str_id(docs): every _id is an ObjectId, so each becomes the string "id"
to_str_id(docs) ==
    [i \in 1..Len(docs) |-> With(Without(docs[i], {"_id"}), "id", OidStr(docs[i]._id))]


(***************************************************************************)
(* Requests.                                                               *)
(***************************************************************************)
MaxSlots == IF NumReq > NumFeedReq THEN NumReq ELSE NumFeedReq

\* the request slots (one HTTP request each)
Slots == 1..MaxSlots

NoResponse == [status |-> 0]

\* return body / raise HTTPException(status, ...)
Respond(r, status, body) ==
    resp' = [resp EXCEPT ![r] = [status |-> status, body |-> body]]

\* request r has not been received yet; the slots are taken in order
Idle(r) == pc[r] = "idle" /\ \A q \in 1..(r - 1) : pc[q] # "idle"

\* the values datetime.now() may return: the clock never runs backwards
ClockReads == {now} \cup {t \in {now + 1} : t <= MaxClock}

\* the request r moves to position q with locals l
Goto(r, q, l) ==
    /\ pc' = [pc EXCEPT ![r] = q]
    /\ loc' = [loc EXCEPT ![r] = l]

\* bodies of POST /community/posts the clients send (CreatePost); a missing
\* required field is None
CreatePostInputs ==
    { [name |-> You, caption |-> <<"h","i">>, image_url |-> None,
       hashtags |-> None, stage |-> Growing],
      [name |-> <<" ","y","o","u"," ">>,
       caption |-> <<"R","e","p","o","t","t","e","d"," ","t","o","d","a","y">>,
       image_url |-> <<"i","m","g">>, hashtags |-> <<"#x">>,
       stage |-> <<"G","R","O","W","I","N","G">>],
      [name |-> <<" ">>, caption |-> <<"h","i">>, image_url |-> None,
       hashtags |-> <<>>, stage |-> None],
      [name |-> You, caption |-> <<"s","o","i","l">>, image_url |-> None,
       hashtags |-> <<>>, stage |-> Seedling],
      [name |-> Maya, caption |-> None, image_url |-> None,
       hashtags |-> None, stage |-> None] }

\* bodies of POST /community/posts/{post_id}/comments (CreateComment)
CreateCommentInputs ==
    { [name |-> <<"L","e","o">>, text |-> <<"n","i","c","e">>],
      [name |-> <<" "," ">>, text |-> <<>>],
      [name |-> <<"A","v","a">>, text |-> None] }

\* the post_id path parameters the clients send: the identifier of a stored
\* post as the feed shows it, the oldest one also in upper case, a
\* well-formed identifier of no document, and a string that is no ObjectId
PathIds ==
    {OidStr(post[i]._id) : i \in 1..Len(post)}
        \cup {Upper(OidStr(post[i]._id)) : i \in 1..(IF post = <<>> THEN 0 ELSE 1)}
        \cup {OidStr(0), [i \in 1..OidHexLen |-> "z"]}

\* pydantic validation of CreatePost: name and caption are required strings
ValidCreatePost(data) == data.name # None /\ data.caption # None

\* pydantic validation of CreateComment: name and text are required strings
ValidCreateComment(data) == data.name # None /\ data.text # None

(***************************************************************************)
(* POST /community/posts/{post_id}/cheer                                   *)
(***************************************************************************)
\* the body cheer_post returns for the document r of find_one_and_update
CheerBody(r) ==
    LET d == With(Without(r, {"_id"}), "id", OidStr(r._id))
    IN  [ok |-> TRUE,
         cheers |-> IF "cheers" \in DOMAIN d THEN d.cheers ELSE 0,
         id |-> d.id]

\* the cheer as a read followed by a separate write: the read
cheer_post_read(r, post_id) ==
    /\ Idle(r)
    /\ Goto(r, "cheer_write", [op |-> "cheer_post"])
    /\ UNCHANGED <<db, store, nextOid, now, resp>>

cheer_post(r, post_id) ==
    /\ Idle(r)
    /\ Goto(r, "done", [op |-> "cheer_post"])
    /\ IF ~db
       THEN /\ Respond(r, 500, "Database not available")
            /\ UNCHANGED post
       ELSE LET f == CheerFilter(post_id)
                found == \E i \in 1..Len(post) : Matches(post[i], f)
            IN  /\ post' = FindOneAndUpdate(post, f)
                /\ IF ~found
                   THEN Respond(r, 404, "Post not found")
                   ELSE Respond(r, 200, CheerBody(Returned(post, f)))
    /\ UNCHANGED <<db, comment, product, event, nextOid, now>>

(***************************************************************************)
(* POST /community/posts                                                   *)
(***************************************************************************)
\* the payload of create_post
PostPayload(data) ==
    [user_id |-> UserIdOf(data.name),
     caption |-> data.caption,
     image_url |-> data.image_url,
     hashtags |-> IF data.hashtags = None THEN <<>> ELSE data.hashtags,
     stage |-> data.stage,
     cheers |-> 0]

create_post(r, data, t) ==
    /\ Idle(r)
    /\ Goto(r, "done", [op |-> "create_post"])
    /\ IF ~ValidCreatePost(data)
       THEN /\ Respond(r, 422, "validation error")
            /\ UNCHANGED <<post, nextOid, now>>
       ELSE IF ~db
       THEN /\ Respond(r, 500, "Database not available")
            /\ UNCHANGED <<post, nextOid, now>>
       ELSE /\ post' = CreateDocument(post, PostPayload(data), nextOid, t)
            /\ nextOid' = nextOid + 1
            /\ now' = t
            /\ Respond(r, 200, [id |-> OidStr(nextOid), ok |-> TRUE])
    /\ UNCHANGED <<db, comment, product, event>>

(***************************************************************************)
(* POST /community/posts/{post_id}/comments                                *)
(***************************************************************************)
\* the payload of add_comment
CommentPayload(post_id, data) ==
    [post_id |-> post_id, user_id |-> UserIdOf(data.name), text |-> data.text]

add_comment(r, post_id, data, t) ==
    /\ Idle(r)
    /\ Goto(r, "done", [op |-> "add_comment"])
    /\ IF ~ValidCreateComment(data)
       THEN /\ Respond(r, 422, "validation error")
            /\ UNCHANGED <<comment, nextOid, now>>
       ELSE IF ~db
       THEN /\ Respond(r, 500, "Database not available")
            /\ UNCHANGED <<comment, nextOid, now>>
       ELSE /\ comment' = CreateDocument(comment, CommentPayload(post_id, data),
                                         nextOid, t)
            /\ nextOid' = nextOid + 1
            /\ now' = t
            /\ Respond(r, 200, [id |-> OidStr(nextOid), ok |-> TRUE])
    /\ UNCHANGED <<db, post, product, event>>


(***************************************************************************)
(* GET /community/posts                                                    *)
(***************************************************************************)
\* p.get(k, default)
Get(d, k, default) == IF k \in DOMAIN d THEN d[k] ELSE default

\* p["_priority"]
Priority(p) ==
    IF /\ Lower(Str(Get(p, "user_id", <<>>))) = PinnedUser
       /\ Lower(Str(Get(p, "stage", <<>>))) = PinnedStage
    THEN 1 ELSE 0

\* p["_created_str"]: every stored created_at is a datetime
CreatedStr(p) ==
    IF "created_at" \in DOMAIN p THEN IsoFormat(p.created_at) ELSE <<>>

\* the first loop of community_posts
Annotate(posts) ==
    [i \in 1..Len(posts) |->
        With(With(posts[i], "_priority", Priority(posts[i])),
             "_created_str", CreatedStr(posts[i]))]

\* the key without the priority flag
SortKeyNoPriority(x) == <<0, Get(x, "_created_str", <<>>)>>

\* key=lambda x: (x.get("_priority", 0), x.get("_created_str", ""))
SortKey(x) == <<Get(x, "_priority", 0), Get(x, "_created_str", <<>>)>>

\* Python's < on the key tuples
KeyLess(a, b) == a[1] < b[1] \/ (a[1] = b[1] /\ StrLess(a[2], b[2]))

RECURSIVE InsertForward(_, _)
\* the insertion of a sort without reverse=True
InsertForward(sorted, x) ==
    IF sorted = <<>> THEN <<x>>
    ELSE IF KeyLess(SortKey(x), SortKey(Head(sorted))) THEN <<x>> \o sorted
    ELSE <<Head(sorted)>> \o InsertForward(Tail(sorted), x)

RECURSIVE InsertReverse(_, _)
\* x goes behind every element whose key is not smaller (the sort is stable)
InsertReverse(sorted, x) ==
    IF sorted = <<>> THEN <<x>>
    ELSE IF KeyLess(SortKey(Head(sorted)), SortKey(x)) THEN <<x>> \o sorted
    ELSE <<Head(sorted)>> \o InsertReverse(Tail(sorted), x)

RECURSIVE SortReverse(_)
\* posts.sort(key=..., reverse=True)
SortReverse(posts) ==
    IF posts = <<>> THEN <<>>
    ELSE InsertReverse(SortReverse(SubSeq(posts, 1, Len(posts) - 1)), posts[Len(posts)])

\* what community_posts attaches for one comment document
CommentView(c) ==
    [id |-> Get(c, "id", None), user_id |-> Get(c, "user_id", None),
     text |-> Get(c, "text", None)]

\* the second loop without the two pops
AttachCommentsKeepHelpers(p, comments) ==
    LET found == to_str_id(FindComments(comments, Get(p, "id", None)))
    IN  With(p, "comments", [i \in 1..Len(found) |-> CommentView(found[i])])

\* the body of the second loop of community_posts for the post p
AttachComments(p, comments) ==
    LET found == to_str_id(FindComments(comments, Get(p, "id", None)))
    IN  Without(With(p, "comments", [i \in 1..Len(found) |-> CommentView(found[i])]),
                {"_priority", "_created_str"})

\* the first store call of community_posts and the work up to the second loop
community_posts(r) ==
    /\ Idle(r)
    /\ IF ~db
       THEN /\ Goto(r, "done", [op |-> "community_posts"])
            /\ Respond(r, 200, <<>>)
       ELSE LET posts == to_str_id(SortReverse(Annotate(FindPosts(post))))
            IN  IF posts = <<>>
                THEN /\ Goto(r, "done", [op |-> "community_posts"])
                     /\ Respond(r, 200, posts)
                ELSE /\ Goto(r, "feed_comments",
                             [op |-> "community_posts", posts |-> posts, i |-> 1])
                     /\ UNCHANGED resp
    /\ UNCHANGED <<db, store, nextOid, now>>

\* one iteration of the second loop: the comment query for posts[i]
community_posts_comments(r) ==
    /\ pc[r] = "feed_comments"
    /\ LET i == loc[r].i
           posts == [loc[r].posts EXCEPT ![i] = AttachComments(@, comment)]
       IN  IF i = Len(posts)
           THEN /\ Goto(r, "done", [op |-> "community_posts"])
                /\ Respond(r, 200, posts)
           ELSE /\ Goto(r, "feed_comments", [loc[r] EXCEPT !.posts = posts, !.i = i + 1])
                /\ UNCHANGED resp
    /\ UNCHANGED <<db, store, nextOid, now>>

(***************************************************************************)
(* POST /community/reset-demo                                              *)
(***************************************************************************)
\* db["comment"].delete_many({})
reset_delete_comments(r) ==
    /\ Idle(r)
    /\ IF ~db
       THEN /\ Goto(r, "done", [op |-> "reset_demo_posts"])
            /\ Respond(r, 500, "Database not available")
            /\ UNCHANGED comment
       ELSE /\ Goto(r, "reset_delete_posts", [op |-> "reset_demo_posts"])
            /\ comment' = DeleteMany(comment, "{}")
            /\ UNCHANGED resp
    /\ UNCHANGED <<db, post, product, event, nextOid, now>>

\* db["post"].delete_many({})
reset_delete_posts(r) ==
    /\ pc[r] = "reset_delete_posts"
    /\ Goto(r, "reset_insert", [op |-> "reset_demo_posts", i |-> 1])
    /\ post' = DeleteMany(post, "{}")
    /\ UNCHANGED <<db, comment, product, event, nextOid, now, resp>>

\* for p in demo_posts: create_document("post", p)
reset_insert(r, t) ==
    /\ pc[r] = "reset_insert"
    /\ LET i == loc[r].i
       IN  /\ post' = CreateDocument(post, demo_posts[i], nextOid, t)
           /\ nextOid' = nextOid + 1
           /\ now' = t
           /\ IF i = Len(demo_posts)
              THEN /\ Goto(r, "done", [op |-> "reset_demo_posts"])
                   /\ Respond(r, 200, [ok |-> TRUE, reset |-> 2])
              ELSE /\ Goto(r, "reset_insert", [loc[r] EXCEPT !.i = i + 1])
                   /\ UNCHANGED resp
    /\ UNCHANGED <<db, comment, product, event>>

(***************************************************************************)
(* POST /community/purge-unwanted                                          *)
(***************************************************************************)
purge_unwanted_posts(r) ==
    /\ Idle(r)
    /\ Goto(r, "done", [op |-> "purge_unwanted_posts"])
    /\ IF ~db
       THEN /\ Respond(r, 500, "Database not available")
            /\ UNCHANGED post
       ELSE /\ post' = DeleteMany(post, "$or")
            /\ Respond(r, 200, [ok |-> TRUE, deleted |-> Len(post) - Len(post')])
    /\ UNCHANGED <<db, comment, product, event, nextOid, now>>

(***************************************************************************)
(* GET /seed                                                               *)
(***************************************************************************)
\* created = {}; db["product"].count_documents({}) == 0
seed_count_product(r) ==
    /\ Idle(r)
    /\ IF ~db
       THEN /\ Goto(r, "done", [op |-> "seed_demo"])
            /\ Respond(r, 500, "Database not available")
       ELSE /\ Goto(r, IF product = 0 THEN "seed_insert_product"
                                                       ELSE "seed_count_event",
                    [op |-> "seed_demo", created |-> EmptyDict, i |-> 1])
            /\ UNCHANGED resp
    /\ UNCHANGED <<db, store, nextOid, now>>

\* create_document("product", p), and created["product"] = 2 after the loop
seed_insert_product(r) ==
    /\ pc[r] = "seed_insert_product"
    /\ LET i == loc[r].i
       IN  /\ product' = CountAfterCreate(product)
           /\ nextOid' = nextOid + 1
           /\ IF i = Len(demo_products)
              THEN Goto(r, "seed_count_event",
                        [loc[r] EXCEPT !.created = With(@, "product", 2), !.i = 1])
              ELSE Goto(r, "seed_insert_product", [loc[r] EXCEPT !.i = i + 1])
    /\ UNCHANGED <<db, post, comment, event, now, resp>>

\* db["event"].count_documents({}) == 0
seed_count_event(r) ==
    /\ pc[r] = "seed_count_event"
    /\ Goto(r, IF event = 0 THEN "seed_insert_event"
                                             ELSE "seed_count_post", loc[r])
    /\ UNCHANGED <<db, store, nextOid, now, resp>>

\* create_document("event", e), and created["event"] = 2 after the loop
seed_insert_event(r) ==
    /\ pc[r] = "seed_insert_event"
    /\ LET i == loc[r].i
       IN  /\ event' = CountAfterCreate(event)
           /\ nextOid' = nextOid + 1
           /\ IF i = Len(demo_events)
              THEN Goto(r, "seed_count_post",
                        [loc[r] EXCEPT !.created = With(@, "event", 2), !.i = 1])
              ELSE Goto(r, "seed_insert_event", [loc[r] EXCEPT !.i = i + 1])
    /\ UNCHANGED <<db, post, comment, product, now, resp>>

\* db["post"].count_documents({}) == 0, and the return when it is not
seed_count_post(r) ==
    /\ pc[r] = "seed_count_post"
    /\ IF CountDocuments(post) = 0
       THEN /\ Goto(r, "seed_insert_post", loc[r])
            /\ UNCHANGED resp
       ELSE /\ Goto(r, "done", [op |-> "seed_demo"])
            /\ Respond(r, 200, [seeded |-> loc[r].created])
    /\ UNCHANGED <<db, store, nextOid, now>>

\* create_document("post", post), created["post"] = len(demo_posts), return
seed_insert_post(r, t) ==
    /\ pc[r] = "seed_insert_post"
    /\ LET i == loc[r].i
       IN  /\ post' = CreateDocument(post, demo_posts[i], nextOid, t)
           /\ nextOid' = nextOid + 1
           /\ now' = t
           /\ IF i = Len(demo_posts)
              THEN /\ Goto(r, "done", [op |-> "seed_demo"])
                   /\ Respond(r, 200,
                              [seeded |-> With(loc[r].created, "post", Len(demo_posts))])
              ELSE /\ Goto(r, "seed_insert_post", [loc[r] EXCEPT !.i = i + 1])
                   /\ UNCHANGED resp
    /\ UNCHANGED <<db, comment, product, event>>

(***************************************************************************)
(* The the specification of requests against a fresh store.     *)
(***************************************************************************)
\* a step of request r
Request(r) ==
    \/ \E post_id \in PathIds : cheer_post(r, post_id)
    \/ \E data \in CreatePostInputs, t \in ClockReads : create_post(r, data, t)
    \/ \E post_id \in PathIds, data \in CreateCommentInputs, t \in ClockReads :
           add_comment(r, post_id, data, t)
    \/ community_posts(r)
    \/ community_posts_comments(r)
    \/ reset_delete_comments(r)
    \/ reset_delete_posts(r)
    \/ \E t \in ClockReads : reset_insert(r, t)
    \/ purge_unwanted_posts(r)
    \/ seed_count_product(r)
    \/ seed_insert_product(r)
    \/ seed_count_event(r)
    \/ seed_insert_event(r)
    \/ seed_count_post(r)
    \/ \E t \in ClockReads : seed_insert_post(r, t)

\* the store after seed_demo
SeededPosts == [i \in 1..2 |-> NewDocument(demo_posts[i], FirstOid + i - 1, 0)]

\* the process starts with the store handle set or not, against a store
\* that is empty or holds what seed_demo inserts
Init ==
    /\ db \in BOOLEAN
    /\ \/ post = <<>> /\ product = 0 /\ event = 0
       \/ post = SeededPosts /\ product = 2 /\ event = 2
    /\ comment = <<>>
    /\ nextOid = FirstOid + Len(post)
    /\ now = 0
    /\ pc = [r \in Slots |-> "idle"]
    /\ loc = [r \in Slots |-> [op |-> "none"]]
    /\ resp = [r \in Slots |-> NoResponse]

Next == \E r \in 1..NumReq : Request(r)

Spec == Init /\ [][Next]_vars


(***************************************************************************)
(* The specification of requests against a store that earlier requests     *)
(* have filled: every initial store is one the handlers above produce.     *)
(***************************************************************************)
\* payloads of stored posts: the pinned demo post, a post of the pinned
\* author at another stage, the other demo post, and a post pinned through
\* lower()
InitPostPayloads ==
    << demo_posts[2],
       PostPayload([name |-> You, caption |-> <<"s","o","i","l">>,
                    image_url |-> None, hashtags |-> <<>>, stage |-> Seedling]),
       demo_posts[1],
       PostPayload([name |-> <<" ","y","o","u"," ">>, caption |-> <<"h","i">>,
                    image_url |-> None, hashtags |-> None,
                    stage |-> <<"G","R","O","W","I","N","G">>]) >>

\* the payloads of n posts: InitPostPayloads taken in turn from the a-th on,
\* forwards (d = 1) or backwards (d = 3)
InitPayloads(n, a, d) == [i \in 1..n |-> InitPostPayloads[((a + d * i) % 4) + 1]]

\* creation times of n documents inserted one after the other, the last one
\* at the present time
InitTimes(n) ==
    {ts \in [1..n -> 0..MaxInitClock] :
        ts[n] = MaxInitClock /\ \A i \in 1..(n - 1) : ts[i] <= ts[i + 1]}

\* n posts created one after the other
InitPosts(n) ==
    { [i \in 1..n |-> NewDocument(InitPayloads(n, x[1], x[2])[i], FirstOid + i - 1, x[3][i])] :
          x \in (0..3) \X {1, 3} \X InitTimes(n) }

\* k comments added one after the other, all to the post main except the
\* f-th one, which is added under the identifier other
InitComments(k, f, main, other) ==
    [j \in 1..k |->
        NewDocument(CommentPayload(IF j = f THEN other ELSE main,
                                   [name |-> <<"L","e","o">>, text |-> <<"n","i","c","e">>]),
                    FirstOid + 2 + j - 1, 0)]

InitFeed ==
    /\ db = TRUE
    /\ \/ /\ post \in InitPosts(MaxInitPosts) \cup {<<>>}
          /\ comment = <<>>
          /\ product = 0
          /\ event = 0
          /\ now = MaxInitClock
       \/ /\ post = SeededPosts
          /\ \E k \in 0..MaxInitComments, f \in 0..MaxInitComments,
                other \in {Upper(OidStr(FirstOid)), OidStr(FirstOid + 1)} :
                /\ f <= k
                /\ comment = InitComments(k, f, OidStr(FirstOid), other)
          /\ product = 2
          /\ event = 2
          /\ now = 0
    /\ nextOid = FirstOid + Len(post) + Len(comment)
    /\ pc = [r \in Slots |-> "idle"]
    /\ loc = [r \in Slots |-> [op |-> "none"]]
    /\ resp = [r \in Slots |-> NoResponse]

NextFeed == \E r \in 1..NumFeedReq : Request(r)

SpecFeed == InitFeed /\ [][NextFeed]_vars


(***************************************************************************)
(* Properties.                                                             *)
(***************************************************************************)
\* the requests of operation op that were answered with 200
Answered(op) == {r \in Slots : loc[r].op = op /\ pc[r] = "done" /\ resp[r].status = 200}

\* the answered cheer requests that named the stored post p
CheersOn(p) == {r \in Answered("cheer_post") : resp[r].body.id = OidStr(p._id)}

\* the cheer count a stored post was inserted with: 0 by create_post, the
\* demo count by seed_demo and reset_demo_posts
InsertedCheers(p) ==
    IF \E r \in Answered("create_post") : resp[r].body.id = OidStr(p._id)
    THEN 0
    ELSE demo_posts[CHOOSE k \in 1..Len(demo_posts) : demo_posts[k].caption = p.caption].cheers

\* the stored post, if any, that the path parameter post_id names: the one
\* whose identifier, as the feed shows it, is post_id up to letter case
Named(post_id) == {i \in 1..Len(post) : OidStr(post[i]._id) = Lower(post_id)}

\* C1: whatever the order in which the cheer requests on a post were served,
\* a post that is still stored holds the count it was inserted with plus the
\* number of cheer requests answered for it: no increment is lost.
C1_NoLostCheer ==
    \A i \in 1..Len(post) :
        post[i].cheers = InsertedCheers(post[i]) + Cardinality(CheersOn(post[i]))

\* C1 witness: two cheer requests were answered for one stored post.
C1_Witness == \E i \in 1..Len(post) : Cardinality(CheersOn(post[i])) >= 2

\* C2: with the store available, a cheer request whose post_id names no stored
\* post (well-formed or not) is answered 404 and changes nothing in the store.
C2_CheerNotFound ==
    [][\A r \in Slots : (db /\ pc[r] = "idle" /\ loc'[r].op = "cheer_post") =>
          \A post_id \in PathIds :
              (Named(post_id) = {} /\ cheer_post(r, post_id))
                 => (resp'[r].status = 404 /\ store' = store)]_vars

\* C2 witness: a cheer request was answered 404 after a post had been
\* stored that is still there.
C2_Witness ==
    \E q \in Answered("create_post") : \E r \in Slots :
        /\ q < r
        /\ \E i \in 1..Len(post) : resp[q].body.id = OidStr(post[i]._id)
        /\ loc[r].op = "cheer_post"
        /\ resp[r].status = 404

\* C6: a cheer request that names a stored post raises that post's count by
\* exactly 1, leaves every other document alone and returns the post's
\* identifier with the count after the increment; cheers answered one after
\* the other for the same post return consecutive counts in that order.
C6_CheerReturnsNewCount ==
    [][/\ \A r \in Slots : (db /\ pc[r] = "idle" /\ loc'[r].op = "cheer_post") =>
            \A post_id \in PathIds : \A i \in Named(post_id) :
               cheer_post(r, post_id)
               => /\ Len(post') = Len(post)
                  /\ post'[i].cheers = post[i].cheers + 1
                  /\ \A k \in 1..Len(post) : k # i => post'[k] = post[k]
                  /\ comment' = comment
                  /\ resp'[r].status = 200
                  /\ resp'[r].body.cheers = post[i].cheers + 1
                  /\ resp'[r].body.id = OidStr(post[i]._id)
       /\ \A r1 \in Answered("cheer_post")' : \A r2 \in Answered("cheer_post")' :
            (r1 < r2 /\ pc[r2] = "idle" /\ resp'[r1].body.id = resp'[r2].body.id)
               => resp'[r2].body.cheers = resp'[r1].body.cheers
                    + Cardinality({q \in Answered("cheer_post")' :
                                      /\ r1 < q /\ q <= r2
                                      /\ resp'[q].body.id = resp'[r1].body.id})
      ]_vars

\* C6 witness: two cheers on the demo post stored with count 12 returned 13
\* and then 14.
C6_Witness ==
    \E r1 \in Answered("cheer_post") : \E r2 \in Answered("cheer_post") :
        /\ r1 < r2
        /\ resp[r1].body.id = resp[r2].body.id
        /\ resp[r1].body.cheers = demo_posts[1].cheers + 1
        /\ resp[r2].body.cheers = demo_posts[1].cheers + 2

\* C7 (as claimed): every stored comment has a non-empty text.
C7_CommentTextNonEmpty == \A i \in 1..Len(comment) : comment[i].text # <<>>

\* C7 witness: add_comment answered 200 for a comment stored with empty text.
C7_Witness ==
    \E r \in Answered("add_comment") : \E i \in 1..Len(comment) :
        resp[r].body.id = OidStr(comment[i]._id) /\ comment[i].text = <<>>

\* the fields of a post that no operation changes
Immutable(p) == <<p.user_id, p.caption, p.image_url, p.hashtags, p.stage>>

\* C9: across every step, a post that stays stored keeps its author, caption,
\* image, hashtags and stage, and its cheer count stays or grows by 1, the
\* latter only in a step of a cheer request; a post stored by create_post
\* starts with count 0; no stored count is negative.
C9_PostFieldsFrozen ==
    [][/\ \A i \in 1..Len(post) : \A j \in 1..Len(post') :
            post[i]._id = post'[j]._id
               => /\ Immutable(post'[j]) = Immutable(post[i])
                  /\ post'[j].cheers \in {post[i].cheers, post[i].cheers + 1}
                  /\ post'[j].cheers # post[i].cheers
                        => \E r \in Slots : pc[r] = "idle" /\ loc'[r].op = "cheer_post"
       /\ \A r \in Slots : \A j \in 1..Len(post') :
            (/\ pc[r] = "idle" /\ loc'[r].op = "create_post" /\ resp'[r].status = 200
             /\ resp'[r].body.id = OidStr(post'[j]._id))
               => post'[j].cheers = 0
       /\ \A j \in 1..Len(post') : post'[j].cheers >= 0
      ]_vars

\* C9 witness: a post stored by create_post has been cheered.
C9_Witness ==
    \E i \in 1..Len(post) :
        /\ \E r \in Answered("create_post") : resp[r].body.id = OidStr(post[i]._id)
        /\ post[i].cheers = 1


\* request r is between two of its store calls
Between(r) == pc[r] \notin {"idle", "done"}

\* the handlers that make one store call, and those that make several
SingleCallOps == {"cheer_post", "create_post", "add_comment", "purge_unwanted_posts"}
MultiCallOps == {"community_posts", "reset_demo_posts", "seed_demo"}

\* the number of stored posts with the given caption
Stored(caption) == Cardinality({i \in 1..Len(post) : post[i].caption = caption})

\* C10 (as claimed): every request takes effect as a single store call, so no
\* request is ever between two store calls where another could observe or act
\* on what it has applied so far (a feed between its post query and its
\* comment queries, a reset between its deletes and its inserts, a seed
\* between its empty-check and its inserts), and the demo posts are never
\* stored twice.
C10_SingleStoreCall ==
    /\ \A r \in Slots : ~Between(r)
    /\ Stored(DemoCaption1) <= 1
    /\ Stored(DemoCaption2) <= 1

\* C10 (amended): cheer, post submission, comment submission and purge take
\* effect in a single store call; the feed, reset-demo and seed are the only
\* requests ever between store calls; every step is one store call of one
\* request, changing at most one collection.
C10_StoreCallGranularity ==
    [][/\ \A r \in Slots :
            (pc[r] = "idle" /\ loc'[r].op \in SingleCallOps) => pc'[r] = "done"
       /\ \A r \in Slots : Between(r)' => loc'[r].op \in MultiCallOps
       /\ Cardinality({r \in Slots :
              pc'[r] # pc[r] \/ loc'[r] # loc[r] \/ resp'[r] # resp[r]}) <= 1
       /\ Cardinality({c \in 1..4 : store'[c] # store[c]}) <= 1
      ]_vars

\* C10 witness: two seed requests ran between each other's empty-check and
\* inserts, and the demo posts are stored twice.
C10_Witness ==
    /\ Stored(DemoCaption1) = 2
    /\ Stored(DemoCaption2) = 2
    /\ Cardinality(Answered("seed_demo")) = 2

(***************************************************************************)
(* Properties of the feed.                                                 *)
(***************************************************************************)
\* the feeds returned
Feeds == {resp[r].body : r \in Answered("community_posts")}

\* the pinned condition with exact comparison against the demo post's author
\* and stage
PinnedExact(p) == p.user_id = You /\ p.stage = Growing

\* the pinned condition with author and stage compared ignoring letter case
PinnedIgnoringCase(p) ==
    /\ Lower(p.user_id) = Lower(You)
    /\ p.stage # None
    /\ Lower(p.stage) = Lower(Growing)

\* datetime a is earlier than datetime b
Earlier(a, b) == a.s < b.s \/ (a.s = b.s /\ a.us < b.us)

\* C4 (as claimed): in every feed returned, each post whose author equals
\* "You" and whose stage equals "Growing" comes before each post for which
\* that does not hold.
C4_PinnedExactFirst ==
    \A f \in Feeds : \A i \in 1..Len(f) : \A j \in 1..Len(f) :
        (PinnedExact(f[i]) /\ ~PinnedExact(f[j])) => i < j

\* C4 (amended): in every feed returned, each post whose author and stage
\* equal "You" and "Growing" up to letter case comes before each post for
\* which that does not hold, whatever the creation times.
C4_PinnedFirst ==
    \A f \in Feeds : \A i \in 1..Len(f) : \A j \in 1..Len(f) :
        (PinnedIgnoringCase(f[i]) /\ ~PinnedIgnoringCase(f[j])) => i < j

\* C4 witness: a feed lists a pinned post before a post that is not pinned
\* and was created later.
C4_Witness ==
    \E f \in Feeds : \E i \in 1..Len(f) : \E j \in 1..Len(f) :
        /\ i < j
        /\ PinnedIgnoringCase(f[i])
        /\ ~PinnedIgnoringCase(f[j])
        /\ Earlier(f[i].created_at, f[j].created_at)

\* posts with equal priority flag are listed most recent first
RecentFirst(f) ==
    \A i \in 1..Len(f) : \A j \in 1..Len(f) :
        (/\ PinnedIgnoringCase(f[i]) = PinnedIgnoringCase(f[j])
         /\ Earlier(f[j].created_at, f[i].created_at)) => i < j

\* the places (a, b, c) of the example in the feed f: b pinned, a and c not,
\* created in the order b, c, a
Example(f) ==
    {t \in (1..Len(f)) \X (1..Len(f)) \X (1..Len(f)) :
        /\ ~PinnedIgnoringCase(f[t[1]])
        /\ PinnedIgnoringCase(f[t[2]])
        /\ ~PinnedIgnoringCase(f[t[3]])
        /\ Earlier(f[t[2]].created_at, f[t[3]].created_at)
        /\ Earlier(f[t[3]].created_at, f[t[1]].created_at)}

\* C5 (as claimed): posts with the same priority flag are listed most recent
\* first, and posts a (time 3, not pinned), b (time 1, pinned), c (time 2, not
\* pinned) are returned in the order b, c, a.
C5_RecentFirstExampleBCA ==
    \A f \in Feeds :
        /\ RecentFirst(f)
        /\ \A t \in Example(f) : t[2] < t[3] /\ t[3] < t[1]

\* C5 (amended): posts with the same priority flag are listed most recent
\* first, and posts a (time 3, not pinned), b (time 1, pinned), c (time 2, not
\* pinned) are returned in the order b, a, c.
C5_RecentFirst ==
    \A f \in Feeds :
        /\ RecentFirst(f)
        /\ \A t \in Example(f) : t[2] < t[1] /\ t[1] < t[3]

\* C5 witness: a feed of the three posts of the example.
C5_Witness == \E f \in Feeds : Len(f) = 3 /\ Example(f) # {}

\* the stored comments (by place in insertion order) that refer to pid
Referring(pid) == {j \in 1..Len(comment) : comment[j].post_id = pid}

\* the k-th most recently inserted comment referring to pid
Recent(pid, k) ==
    CHOOSE j \in Referring(pid) : Cardinality({m \in Referring(pid) : m > j}) = k - 1

\* the comments attached to the post at place i of request r's feed after
\* the step
Attached(r, i) ==
    IF pc'[r] = "done" THEN resp'[r].body[i].comments ELSE loc'[r].posts[i].comments

\* C3: the comments the feed attaches to a post P are, at the time of P's
\* comment query, the up to 5 most recently inserted stored comments whose
\* post_id equals P's identifier as the feed shows it, newest first, each
\* reduced to id, user_id and text; the other posts of the feed keep what
\* was attached to them.
C3_RecentComments ==
    [][\A r \in Slots : (pc[r] = "feed_comments" /\ loc'[r] # loc[r]) =>
          LET i == loc[r].i
              pid == loc[r].posts[i].id
              n == Cardinality(Referring(pid))
              att == Attached(r, i)
          IN  /\ Len(att) = IF n < 5 THEN n ELSE 5
              /\ \A k \in 1..Len(att) :
                    /\ DOMAIN att[k] = {"id", "user_id", "text"}
                    /\ att[k].id = OidStr(comment[Recent(pid, k)]._id)
                    /\ att[k].user_id = comment[Recent(pid, k)].user_id
                    /\ att[k].text = comment[Recent(pid, k)].text
              /\ \A k \in 1..(i - 1) : Attached(r, k) = loc[r].posts[k].comments
      ]_vars

\* C3 witness: a feed attached 5 comments to a post while 6 stored comments
\* refer to it and another stored comment refers elsewhere.
C3_Witness ==
    \E f \in Feeds : \E i \in 1..Len(f) :
        /\ Len(f[i].comments) = 5
        /\ Cardinality(Referring(f[i].id)) >= 6
        /\ \E j \in 1..Len(comment) : comment[j].post_id # f[i].id

\* C8: a step of the feed leaves the four collections as they are; no stored
\* document and no post of a returned feed has a field _priority or
\* _created_str.
C8_FeedReadOnly ==
    [][/\ \A r \in Slots :
            (loc'[r].op = "community_posts" /\ (pc'[r] # pc[r] \/ loc'[r] # loc[r]))
               => store' = store
       /\ \A j \in 1..Len(post') :
            DOMAIN post'[j] \cap {"_priority", "_created_str"} = {}
       /\ \A f \in Feeds' : \A i \in 1..Len(f) :
            DOMAIN f[i] \cap {"_priority", "_created_str"} = {}
      ]_vars

\* C8 witness: a feed of two or more posts, one with comments, was returned.
C8_Witness ==
    \E f \in Feeds : Len(f) >= 2 /\ \E i \in 1..Len(f) : f[i].comments # <<>>

=============================================================================
